---- MODULE Spec2Model ----
(***************************************************************************)
(* Model of bot.py: the scan-and-assign pipeline process_messages, its     *)
(* helpers is_cross_reaction and passes_attachment_filter, and the state   *)
(* of the guild (members, holders of the target role) it acts on.          *)
(*                                                                         *)
(* Strings that the code inspects (emoji names, content types, message     *)
(* text) are tuples of one-character strings, so that lower(), substring   *)
(* tests, startswith() and the URL regex are computed, not assumed.        *)
(***************************************************************************)
EXTENDS Integers, Sequences, FiniteSets, TLC

\* ------------------------------------------------------------------ bounds
MaxMsgs == 2

\* the largest number of authors in the scans of many authors
MaxAuthors == 26

\* the largest number of authors in the scans that are run twice
MaxPairAuthors == 11

\* ------------------------------------------------------- program constants
ProgressEvery == 10

FailedDisplayMax == 20

\* ------------------------------------------------------------- the domain
Users == {"A", "B"}

Bots == {"bot"}

Authors == Users \cup Bots

Runs == {1, 2}

None == "None"

\* the value of progress_msg and report before they exist
NoMessage == [kind |-> "none"]

AttachmentFilter == {"none", "image", "link"}

\* rank of the bot's highest role, and the ranks the target role may have
TopRank == 2

RoleRanks == 1..3

HttpStatuses == {429}

\* what member.add_roles does: it returns, or raises Forbidden or HTTPException
GrantOutcomes ==
    {[kind |-> "success", status |-> 200], [kind |-> "Forbidden", status |-> 403]}
    \cup {[kind |-> "HTTPException", status |-> s] : s \in HttpStatuses}

\* ------------------------------------------------------------ text helpers
UpperCase == <<"A","B","C","D","E","F","G","H","I","J","K","L","M",
               "N","O","P","Q","R","S","T","U","V","W","X","Y","Z">>

LowerCase == <<"a","b","c","d","e","f","g","h","i","j","k","l","m",
               "n","o","p","q","r","s","t","u","v","w","x","y","z">>

\* str.lower(), character by character
lower(s) ==
    [i \in 1..Len(s) |->
        IF \E k \in 1..26 : UpperCase[k] = s[i]
        THEN LowerCase[CHOOSE k \in 1..26 : UpperCase[k] = s[i]]
        ELSE s[i]]

\* prefix at position i:  s[i-1 : i-1+len(w)] == w
MatchAt(w, s, i) ==
    /\ i + Len(w) - 1 <= Len(s)
    /\ \A k \in 1..Len(w) : s[i + k - 1] = w[k]

\* the Python test  w in s  on strings
Contains(w, s) == \E i \in 1..(Len(s) + 1) : MatchAt(w, s, i)

\* str.startswith
StartsWith(s, w) == MatchAt(w, s, 1)

Whitespace == {" ", "\t", "\n", "\r"}

\* URL_REGEX.search(text) for the pattern  https?://\S+
URL_REGEX_search(text) ==
    \E i \in 1..Len(text) :
        \/ /\ MatchAt(<<"h","t","t","p",":","/","/">>, text, i)
           /\ i + 7 <= Len(text)
           /\ text[i + 7] \notin Whitespace
        \/ /\ MatchAt(<<"h","t","t","p","s",":","/","/">>, text, i)
           /\ i + 8 <= Len(text)
           /\ text[i + 8] \notin Whitespace

\* ------------------------------------------------- is_cross_reaction
unicode_crosses == {"U+274C", "U+274E", "U+2716", "U+2715"}

cross_words == { <<"c","r","o","s","s">>, <<"x">>, <<"r","e","j","e","c","t">>,
                 <<"w","r","o","n","g">>, <<"f","a","i","l">> }

\* a reaction is [kind, emoji, count]; kind is the Python type of r.emoji:
\* "str" (a unicode emoji, emoji = its code point), "Emoji" (a custom emoji,
\* emoji = its name) or "PartialEmoji" (emoji = its name)
is_cross_reaction(reaction) ==
    IF reaction.kind = "str" THEN reaction.emoji \in unicode_crosses
    ELSE IF reaction.kind = "Emoji"
         THEN \E word \in cross_words : Contains(word, lower(reaction.emoji))
         ELSE FALSE

\* lines 99-102: any(is_cross_reaction(r) and r.count > 0 for r in reactions)
has_cross(message) ==
    \E i \in 1..Len(message.reactions) :
        is_cross_reaction(message.reactions[i]) /\ message.reactions[i].count > 0

\* ------------------------------------------------- passes_attachment_filter
image_prefix == <<"i","m","a","g","e","/">>

\* a content_type that is None or "": both are falsy at line 65
NoContentType == <<>>

passes_attachment_filter(message, filter) ==
    IF filter = "none" THEN TRUE
    ELSE IF filter = "image"
         THEN \E i \in 1..Len(message.attachments) :
                 /\ message.attachments[i].content_type # NoContentType
                 /\ StartsWith(message.attachments[i].content_type, image_prefix)
         ELSE IF filter = "link" THEN URL_REGEX_search(message.content)
              ELSE TRUE

\* ------------------------------------------------------ the messages used
ImagePng == <<"i","m","a","g","e","/","p","n","g">>

TextPlain == <<"t","e","x","t","/","p","l","a","i","n">>

TextHi == <<"h","i">>

TextWithUrl == <<"s","e","e"," ","h","t","t","p","s",":","/","/","a",".","b">>

TextBareScheme == <<"h","t","t","p",":","/","/"," ","x">>

Attachment(content_type) == [content_type |-> content_type]

Reaction(kind, emoji, count) == [kind |-> kind, emoji |-> emoji, count |-> count]

\* payloads a message may carry: reactions, attachment content types, text
CorePayloads ==
    { \* an image, no reaction
      [reactions |-> <<>>, attachments |-> <<Attachment(ImagePng)>>, content |-> TextHi],
      \* a link, a thumbs-up and a custom emoji that is no reject marker
      [reactions |-> <<Reaction("str", "U+1F44D", 2), Reaction("Emoji", <<"o","k">>, 1)>>,
       attachments |-> <<>>, content |-> TextWithUrl],
      \* an image and a link, rejected with a unicode cross
      [reactions |-> <<Reaction("str", "U+274C", 1)>>,
       attachments |-> <<Attachment(TextPlain), Attachment(ImagePng)>>, content |-> TextWithUrl] }

EdgePayloads ==
    { \* an image, rejected with the custom emoji RedX
      [reactions |-> <<Reaction("str", "U+1F44D", 1), Reaction("Emoji", <<"R","e","d","X">>, 1)>>,
       attachments |-> <<Attachment(ImagePng)>>, content |-> TextHi],
      \* neither image nor link; a cross whose count is 0 and a partial emoji
      [reactions |-> <<Reaction("str", "U+274C", 0), Reaction("PartialEmoji", <<"x">>, 1)>>,
       attachments |-> <<Attachment(NoContentType), Attachment(TextPlain)>>, content |-> TextBareScheme] }

BotPayloads ==
    { [reactions |-> <<>>, attachments |-> <<Attachment(ImagePng)>>, content |-> TextWithUrl] }

Message(a, p) ==
    [author |-> a, reactions |-> p.reactions,
     attachments |-> p.attachments, content |-> p.content]

Payloads == CorePayloads \cup EdgePayloads

MessagesWith(payloads) ==
    { Message(a, p) : a \in Users, p \in payloads }
    \cup { Message(a, p) : a \in Bots, p \in BotPayloads }

Messages == MessagesWith(Payloads)

StreamsOver(msgs) == UNION { [1..n -> msgs] : n \in 0..MaxMsgs }

Streams == StreamsOver(Messages)


\* the payload of the larger scans: an image, no reaction
ImagePayload ==
    [reactions |-> <<>>, attachments |-> <<Attachment(ImagePng)>>, content |-> TextHi]

\* ------------------------------------------------------------------ state
VARIABLES
    messages,            \* the history the scan reads, oldest first
    attachment_filter,   \* the filter mode the command was given
    roleRank,            \* rank of the target role
    guildMembers,        \* authors guild.get_member resolves
    roleHolders,         \* members whose roles contain the target role
    pc,                  \* per run: position in process_messages
    pos,                 \* per run: messages fetched from the stream so far
    user_has_clean,      \* per run: defaultdict(bool), as a function on its keys
    user_message_count,  \* per run: defaultdict(int), as a function on its keys
    all_users,
    filter_failed_users,
    valid_users,
    excluded_users,
    duplicate_users,
    assigned_users,
    already_had_role,
    failed_users,
    total,
    processed,
    pending,             \* per run: authors the for loop has not reached yet
    user,                \* per run: the author whose add_roles call is in flight
    grantCalls,          \* per run: the add_roles calls issued, in order
    ui,                  \* per run: followup sends and progress-message edits
    progress_msg,        \* per run: content of the progress message
    report,              \* per run: the composed final report
    rolesBefore,         \* per run: roleHolders when process_messages was called
    rolesAfter,          \* per run: roleHolders when the report was composed
    command,             \* the slash command invoked: "channel" or "thread"
    start_message,       \* the start_message argument, a link or NoLink
    end_message,         \* the end_message argument, a link or NoLink
    is_thread,           \* isinstance(interaction.channel, discord.Thread)
    archived,            \* interaction.channel.archived
    was_archived,        \* archived, as it was when the command was invoked
    history_kwargs       \* per run: the arguments of the history() call made

invocation == <<command, start_message, end_message, is_thread, archived,
                was_archived, history_kwargs>>

globals == <<messages, attachment_filter, roleRank, guildMembers, invocation>>

snapshots == <<rolesBefore, rolesAfter>>

aggregates == <<user_has_clean, user_message_count, all_users, filter_failed_users>>

resolved == <<valid_users, excluded_users, duplicate_users, total>>

outcomes == <<assigned_users, already_had_role, failed_users, processed>>

vars == <<messages, attachment_filter, roleRank, guildMembers, roleHolders, pc, pos,
          user_has_clean, user_message_count, all_users, filter_failed_users,
          valid_users, excluded_users, duplicate_users, assigned_users,
          already_had_role, failed_users, total, processed, pending, user,
          grantCalls, ui, progress_msg, report, rolesBefore, rolesAfter,
          command, start_message, end_message, is_thread, archived,
          was_archived, history_kwargs>>

EmptyFn == [x \in {} |-> TRUE]

HierarchyError == [kind |-> "hierarchy error"]

Send(content) == [op |-> "send", content |-> content, ok |-> TRUE]

EditMsg(content, ok) == [op |-> "edit", content |-> content, ok |-> ok]

Progress(done, of) == [kind |-> "progress", processed |-> done, total |-> of]

\* a start_message / end_message that is None or "": both are falsy
NoLink == <<>>

\* an "after" or "before" argument of history(), or its absence
NoBound == [given |-> FALSE, id |-> 0]

Bound(id) == [given |-> TRUE, id |-> id]

\* lines 257-263: the history() call; made is FALSE before the call
HistoryKwargs(after, before) == [made |-> TRUE, after |-> after, before |-> before]

NoHistory == [made |-> FALSE, after |-> NoBound, before |-> NoBound]

\* the id of the i-th message of the channel: ids grow with the time of
\* posting, and messages holds the channel oldest first
MessageId(i) == i

\* lines 263, 334: history(limit=None, oldest_first=True, after=, before=)
\* yields the messages whose id lies strictly between the two bounds
history(kwargs) ==
    LET within == {i \in 1..Len(messages) :
                      /\ kwargs.after.given => MessageId(i) > kwargs.after.id
                      /\ kwargs.before.given => MessageId(i) < kwargs.before.id}
    IN  IF within = {} THEN <<>>
        ELSE SubSeq(messages, CHOOSE i \in within : \A k \in within : i <= k,
                              CHOOSE i \in within : \A k \in within : i >= k)

\* the locals of a run that has not started
RunInit ==
    /\ pos = [r \in Runs |-> 0]
    /\ user_has_clean = [r \in Runs |-> EmptyFn]
    /\ user_message_count = [r \in Runs |-> EmptyFn]
    /\ all_users = [r \in Runs |-> {}]
    /\ filter_failed_users = [r \in Runs |-> {}]
    /\ valid_users = [r \in Runs |-> {}]
    /\ excluded_users = [r \in Runs |-> {}]
    /\ duplicate_users = [r \in Runs |-> {}]
    /\ assigned_users = [r \in Runs |-> <<>>]
    /\ already_had_role = [r \in Runs |-> <<>>]
    /\ failed_users = [r \in Runs |-> <<>>]
    /\ total = [r \in Runs |-> 0]
    /\ processed = [r \in Runs |-> 0]
    /\ pending = [r \in Runs |-> {}]
    /\ user = [r \in Runs |-> None]
    /\ grantCalls = [r \in Runs |-> <<>>]
    /\ ui = [r \in Runs |-> <<>>]
    /\ progress_msg = [r \in Runs |-> NoMessage]
    /\ report = [r \in Runs |-> NoMessage]
    /\ rolesBefore = [r \in Runs |-> {}]
    /\ rolesAfter = [r \in Runs |-> {}]

\* giverolechannel was invoked without links and has reached line 264, the
\* call of process_messages on the channel's whole history
CalledOnWholeHistory ==
    /\ command = "channel"
    /\ start_message = NoLink
    /\ end_message = NoLink
    /\ is_thread = FALSE
    /\ archived = FALSE
    /\ was_archived = FALSE
    /\ history_kwargs = [r \in Runs |-> HistoryKwargs(NoBound, NoBound)]
    /\ pc = [r \in Runs |-> "idle"]

\* the guild: who is a member, and which members hold the target role
InitOver(streams) ==
    /\ messages \in streams
    /\ attachment_filter \in AttachmentFilter
    /\ roleRank \in RoleRanks
    /\ guildMembers \in SUBSET Users
    /\ roleHolders \in SUBSET guildMembers
    /\ CalledOnWholeHistory
    /\ RunInit

Init == InitOver(Streams)

\* ------------------------------------------------ process_messages, line 78
HierarchyViolation_strict(role, top_role) == role > top_role

HierarchyViolation(role, top_role) == role >= top_role

\* lines 76-89: the call, the hierarchy check, the fresh aggregates
HierarchyCheck(r) ==
    /\ pc[r] = "idle"
    /\ IF HierarchyViolation(roleRank, TopRank)
       THEN /\ ui' = [ui EXCEPT ![r] = Append(@, Send(HierarchyError))]
            /\ pc' = [pc EXCEPT ![r] = "done"]
       ELSE /\ pc' = [pc EXCEPT ![r] = "scan"]
            /\ ui' = ui
    /\ rolesBefore' = [rolesBefore EXCEPT ![r] = roleHolders]
    /\ UNCHANGED <<globals, roleHolders, pos, aggregates, resolved, outcomes,
                   pending, user, grantCalls, progress_msg, report, rolesAfter>>

\* ------------------------------------------- stage 1, lines 91-111
\* d[k] += 1 on a defaultdict(int)
Increment(d, k) ==
    [x \in DOMAIN d \cup {k} |->
        IF x = k THEN (IF k \in DOMAIN d THEN d[k] ELSE 0) + 1 ELSE d[x]]

\* d[k] = v
SetItem(d, k, v) == [x \in DOMAIN d \cup {k} |-> IF x = k THEN v ELSE d[x]]

IsBot_never(author) == FALSE

IsBot(author) == author \in Bots

\* lines 98-111: what one non-bot message does to user_has_clean
CleanAfter_revoking(clean, message, filter) ==
    IF has_cross(message) THEN SetItem(clean, message.author, FALSE)
    ELSE IF ~passes_attachment_filter(message, filter) THEN clean
         ELSE SetItem(clean, message.author, TRUE)

CleanAfter(clean, message, filter) ==
    IF has_cross(message) THEN clean
    ELSE IF ~passes_attachment_filter(message, filter) THEN clean
         ELSE SetItem(clean, message.author, TRUE)

\* lines 98-109: what one non-bot message does to filter_failed_users
FilterFailedAfter(failed, message, filter) ==
    IF has_cross(message) THEN failed
    ELSE IF ~passes_attachment_filter(message, filter)
         THEN failed \cup {message.author}
         ELSE failed

\* one iteration of the async for: fetch the next message and fold it in
ReadMessage(r) ==
    /\ pc[r] = "scan"
    /\ pos[r] < Len(history(history_kwargs[r]))
    /\ LET message == history(history_kwargs[r])[pos[r] + 1] IN
       /\ pos' = [pos EXCEPT ![r] = @ + 1]
       /\ IF IsBot(message.author)
          THEN UNCHANGED aggregates
          ELSE /\ all_users' = [all_users EXCEPT ![r] = @ \cup {message.author}]
               /\ user_message_count' =
                    [user_message_count EXCEPT ![r] = Increment(@, message.author)]
               /\ filter_failed_users' =
                    [filter_failed_users EXCEPT
                        ![r] = FilterFailedAfter(@, message, attachment_filter)]
               /\ user_has_clean' =
                    [user_has_clean EXCEPT
                        ![r] = CleanAfter(@, message, attachment_filter)]
    /\ UNCHANGED <<globals, snapshots, roleHolders, pc, resolved, outcomes, pending,
                   user, grantCalls, ui, progress_msg, report>>

\* ------------------------------------------- stage 2, lines 113-128
ValidUsers(clean) == {u \in DOMAIN clean : clean[u]}

ExcludedUsers_all(seen, valid) == seen

ExcludedUsers(seen, valid) == seen \ valid

DuplicateUsers_atLeastOne(counts) == {u \in DOMAIN counts : counts[u] >= 1}

DuplicateUsers(counts) == {u \in DOMAIN counts : counts[u] > 1}

\* lines 86-115 as a function of the stream: the aggregates after the loop
\* has folded in every message, and the sets resolved from them
AggregateStep(agg, message, filter) ==
    IF IsBot(message.author) THEN agg
    ELSE [seen   |-> agg.seen \cup {message.author},
          counts |-> Increment(agg.counts, message.author),
          failed |-> FilterFailedAfter(agg.failed, message, filter),
          clean  |-> CleanAfter(agg.clean, message, filter)]

RECURSIVE Aggregate(_, _)
Aggregate(stream, filter) ==
    IF stream = <<>>
    THEN [seen |-> {}, counts |-> EmptyFn, failed |-> {}, clean |-> EmptyFn]
    ELSE AggregateStep(Aggregate(SubSeq(stream, 1, Len(stream) - 1), filter),
                       stream[Len(stream)], filter)

ResolvedSets(agg) ==
    [seen          |-> agg.seen,
     filter_failed |-> agg.failed,
     eligible      |-> ValidUsers(agg.clean),
     excluded      |-> ExcludedUsers(agg.seen, ValidUsers(agg.clean)),
     duplicates    |-> DuplicateUsers(agg.counts)]

\* line 130: the authors the loop visits
LoopUsers_all(valid, seen) == seen

LoopUsers(valid, seen) == valid

\* the stream is exhausted: resolve the sets and send the progress message
Resolve(r) ==
    /\ pc[r] = "scan"
    /\ pos[r] = Len(history(history_kwargs[r]))
    /\ LET valid == ValidUsers(user_has_clean[r]) IN
       /\ valid_users' = [valid_users EXCEPT ![r] = valid]
       /\ excluded_users' =
            [excluded_users EXCEPT ![r] = ExcludedUsers(all_users[r], valid)]
       /\ duplicate_users' =
            [duplicate_users EXCEPT ![r] = DuplicateUsers(user_message_count[r])]
       /\ total' = [total EXCEPT ![r] = Cardinality(valid)]
       /\ pending' = [pending EXCEPT ![r] = LoopUsers(valid, all_users[r])]
       /\ progress_msg' = [progress_msg EXCEPT ![r] = Progress(0, Cardinality(valid))]
       /\ ui' = [ui EXCEPT ![r] = Append(@, Send(Progress(0, Cardinality(valid))))]
    /\ assigned_users' = [assigned_users EXCEPT ![r] = <<>>]
    /\ already_had_role' = [already_had_role EXCEPT ![r] = <<>>]
    /\ failed_users' = [failed_users EXCEPT ![r] = <<>>]
    /\ processed' = [processed EXCEPT ![r] = 0]
    /\ pc' = [pc EXCEPT ![r] = "assign"]
    /\ UNCHANGED <<globals, snapshots, roleHolders, pos, aggregates, user,
                   grantCalls, report>>


\* ------------------------------------------- stage 3, lines 130-160
\* lines 133, 146, 148: an entry of failed_users; status is e.status or 0
Failure(u, reason, status) == [user |-> u, reason |-> reason, status |-> status]

\* line 131: guild.get_member(user.id)
get_member(u) == IF u \in guildMembers THEN u ELSE None

\* line 137: role in member.roles
HasRole_never(member) == FALSE

HasRole(member) == member \in roleHolders

\* lines 152-158: the progress edit after line 150, an edit that may fail
ProgressEdit(r, done, editOk) ==
    IF done % ProgressEvery = 0
    THEN /\ ui' = [ui EXCEPT ![r] = Append(@, EditMsg(Progress(done, total[r]), editOk))]
         /\ progress_msg' =
              [progress_msg EXCEPT ![r] = IF editOk THEN Progress(done, total[r]) ELSE @]
    ELSE /\ editOk
         /\ UNCHANGED <<ui, progress_msg>>

\* lines 130-143: the loop takes the next author, in the set's arbitrary
\* order, and skips it (lines 132-140) or issues add_roles (line 143)
NextUser(r) ==
    /\ pc[r] = "assign"
    /\ pending[r] # {}
    /\ \E u \in pending[r] :
        /\ pending' = [pending EXCEPT ![r] = @ \ {u}]
        /\ IF get_member(u) = None
           THEN /\ failed_users' =
                     [failed_users EXCEPT ![r] = Append(@, Failure(u, "left server?", 0))]
                /\ processed' = [processed EXCEPT ![r] = @ + 1]
                /\ UNCHANGED <<already_had_role, grantCalls, pc, user>>
           ELSE IF HasRole(get_member(u))
                THEN /\ already_had_role' = [already_had_role EXCEPT ![r] = Append(@, u)]
                     /\ processed' = [processed EXCEPT ![r] = @ + 1]
                     /\ UNCHANGED <<failed_users, grantCalls, pc, user>>
                ELSE /\ grantCalls' = [grantCalls EXCEPT ![r] = Append(@, u)]
                     /\ user' = [user EXCEPT ![r] = u]
                     /\ pc' = [pc EXCEPT ![r] = "granting"]
                     /\ UNCHANGED <<failed_users, already_had_role, processed>>
    /\ UNCHANGED <<globals, snapshots, roleHolders, pos, aggregates, resolved,
                   assigned_users, ui, progress_msg, report>>

\* line 143: what a successful add_roles does to the holders of the role
GrantEffect_toggle(holders, member) ==
    IF member \in holders THEN holders \ {member} ELSE holders \cup {member}

GrantEffect(holders, member) == holders \cup {member}

\* lines 157-158: an exception of the progress edit is swallowed and the
\* loop goes where it was going
AfterEdit_leaves(next, editOk) == IF editOk THEN next ELSE "report"

AfterEdit(next, editOk) == next

\* lines 145-150: where the loop goes after add_roles has returned
AfterGrant_abort(outcome) == IF outcome.kind = "success" THEN "assign" ELSE "report"

AfterGrant(outcome) == "assign"

\* lines 143-160: add_roles returns or raises; the counter, the progress edit
AddRolesReturn(r) ==
    /\ pc[r] = "granting"
    /\ \E outcome \in GrantOutcomes, editOk \in BOOLEAN :
        /\ IF outcome.kind = "success"
           THEN /\ roleHolders' = GrantEffect(roleHolders, user[r])
                /\ assigned_users' = [assigned_users EXCEPT ![r] = Append(@, user[r])]
                /\ UNCHANGED failed_users
           ELSE /\ failed_users' =
                     [failed_users EXCEPT ![r] =
                        Append(@, IF outcome.kind = "Forbidden"
                                  THEN Failure(user[r], "permission denied", 0)
                                  ELSE Failure(user[r], "HTTP error", outcome.status))]
                /\ UNCHANGED <<roleHolders, assigned_users>>
        /\ processed' = [processed EXCEPT ![r] = @ + 1]
        /\ ProgressEdit(r, processed[r] + 1, editOk)
        /\ pc' = [pc EXCEPT ![r] = AfterEdit(AfterGrant(outcome), editOk)]
    /\ user' = [user EXCEPT ![r] = None]
    /\ UNCHANGED <<globals, snapshots, pos, aggregates, resolved, already_had_role,
                   pending, grantCalls, report>>

\* ------------------------------------------- stage 4, lines 162-195
Min(a, b) == IF a < b THEN a ELSE b

\* lines 169-177: the header's count, the detail lines, and the "... and N
\* more." line (marker) with its N (more)
FailedSection_inclusive(failed) ==
    IF failed = <<>> THEN [count |-> 0, lines |-> <<>>, marker |-> FALSE, more |-> 0]
    ELSE [count  |-> Len(failed),
          lines  |-> SubSeq(failed, 1, Min(Len(failed), FailedDisplayMax)),
          marker |-> Len(failed) >= FailedDisplayMax,
          more   |-> IF Len(failed) >= FailedDisplayMax
                     THEN Len(failed) - FailedDisplayMax ELSE 0]

FailedSection(failed) ==
    IF failed = <<>> THEN [count |-> 0, lines |-> <<>>, marker |-> FALSE, more |-> 0]
    ELSE [count  |-> Len(failed),
          lines  |-> SubSeq(failed, 1, Min(Len(failed), FailedDisplayMax)),
          marker |-> Len(failed) > FailedDisplayMax,
          more   |-> IF Len(failed) > FailedDisplayMax
                     THEN Len(failed) - FailedDisplayMax ELSE 0]

\* line 185
ExcludedByReactionCount_all(r) == Cardinality(excluded_users[r])

ExcludedByReactionCount(r) == Cardinality(excluded_users[r] \ filter_failed_users[r])

\* line 186
ExcludedByFilterCount(r) == Cardinality(filter_failed_users[r])

\* lines 179-190
Report(r) ==
    [kind           |-> "report",
     filter         |-> attachment_filter,
     scanned        |-> Cardinality(all_users[r]),
     assigned       |-> Len(assigned_users[r]),
     already_had    |-> Len(already_had_role[r]),
     excl_reaction  |-> ExcludedByReactionCount(r),
     excl_filter    |-> ExcludedByFilterCount(r),
     duplicates     |-> Cardinality(duplicate_users[r]),
     failed         |-> Len(failed_users[r]),
     failed_section |-> FailedSection(failed_users[r])]

\* lines 192-195: the calls that deliver the report: the edit of the progress
\* message and, when it raises, the send of a fresh message
DeliveryLog_noFallback(rep, editOk) == <<EditMsg(rep, editOk)>>

DeliveryLog(rep, editOk) ==
    IF editOk THEN <<EditMsg(rep, TRUE)>> ELSE <<EditMsg(rep, FALSE), Send(rep)>>

\* lines 162-195: the loop is over (the set is exhausted, or the loop was
\* left); compose the report, edit the progress message, and send a fresh
\* message if the edit raises
ComposeReport(r) ==
    /\ pc[r] \in {"assign", "report"}
    /\ pc[r] = "assign" => pending[r] = {}
    /\ report' = [report EXCEPT ![r] = Report(r)]
    /\ \E editOk \in BOOLEAN :
        /\ ui' = [ui EXCEPT ![r] = @ \o DeliveryLog(Report(r), editOk)]
        /\ progress_msg' = [progress_msg EXCEPT ![r] = IF editOk THEN Report(r) ELSE @]
    /\ pc' = [pc EXCEPT ![r] = "done"]
    /\ rolesAfter' = [rolesAfter EXCEPT ![r] = roleHolders]
    /\ UNCHANGED <<globals, rolesBefore, roleHolders, pos, aggregates, resolved,
                   outcomes, pending, user, grantCalls>>

\* ------------------------------------------- the commands, lines 199-335
Digits == <<"0", "1", "2", "3", "4", "5", "6", "7", "8", "9">>

\* str.strip()
strip(s) ==
    LET kept == {i \in 1..Len(s) : s[i] \notin Whitespace} IN
    IF kept = {} THEN <<>>
    ELSE SubSeq(s, CHOOSE i \in kept : \A k \in kept : i <= k,
                   CHOOSE i \in kept : \A k \in kept : i >= k)

\* s.split("/")[-1]
last_of_split(s) ==
    LET slashes == {i \in 1..Len(s) : s[i] = "/"} IN
    IF slashes = {} THEN s
    ELSE SubSeq(s, (CHOOSE i \in slashes : \A k \in slashes : i >= k) + 1, Len(s))

RECURSIVE DecimalValue(_)
DecimalValue(d) ==
    IF d = <<>> THEN 0
    ELSE 10 * DecimalValue(SubSeq(d, 1, Len(d) - 1))
         + (CHOOSE k \in 1..10 : Digits[k] = d[Len(d)]) - 1

\* a start_id or end_id that is None
NoId == [ok |-> FALSE, id |-> 0]

\* int(s) on a str: blanks around, an optional sign, decimal digits; anything
\* else raises ValueError
int(s) ==
    LET t      == strip(s)
        signed == t # <<>> /\ t[1] \in {"+", "-"}
        d      == IF signed THEN Tail(t) ELSE t
    IN  IF d = <<>> \/ \E i \in 1..Len(d) : \A k \in 1..10 : Digits[k] # d[i]
        THEN NoId
        ELSE [ok |-> TRUE,
              id |-> IF signed /\ t[1] = "-" THEN 0 - DecimalValue(d) ELSE DecimalValue(d)]

\* lines 197-201: the id, or None when int raises
parse_message_id(link) == int(last_of_split(strip(link)))

\* the truth value of a start_id or end_id: None and 0 are false
Truthy(parsed) == parsed.ok /\ parsed.id # 0

\* the links given to a command: none, links to the ids 0, 1 and 2, the last
\* with blanks around it, and a link with a slash at its end
Links ==
    { NoLink, <<"c", "/", "0">>, <<"c", "/", "1">>,
      <<" ", "c", "/", "2", "\n">>, <<"c", "/", "2", "/">> }

InvalidStartError == [kind |-> "invalid start link"]

InvalidEndError == [kind |-> "invalid end link"]

RangeError == [kind |-> "start must be older than end"]

NotThreadError == [kind |-> "not a thread"]

UnarchiveError == [kind |-> "cannot unarchive"]

\* the handler sends the error and returns
Reject(r, error) ==
    /\ ui' = [ui EXCEPT ![r] = Append(@, Send(error))]
    /\ pc' = [pc EXCEPT ![r] = "rejected"]
    /\ UNCHANGED history_kwargs

\* lines 229-264 and 306-335: the links are parsed and checked, history() is
\* called and process_messages is entered
ParseAndCall(r) ==
    LET start_id == IF start_message # NoLink THEN parse_message_id(start_message) ELSE NoId
        end_id   == IF end_message # NoLink THEN parse_message_id(end_message) ELSE NoId
    IN  IF start_message # NoLink /\ ~start_id.ok THEN Reject(r, InvalidStartError)
        ELSE IF end_message # NoLink /\ ~end_id.ok THEN Reject(r, InvalidEndError)
        ELSE IF Truthy(start_id) /\ Truthy(end_id) /\ start_id.id >= end_id.id
             THEN Reject(r, RangeError)
        ELSE /\ history_kwargs' =
                   [history_kwargs EXCEPT ![r] =
                       HistoryKwargs(IF Truthy(start_id) THEN Bound(start_id.id - 1) ELSE NoBound,
                                     IF Truthy(end_id) THEN Bound(end_id.id + 1) ELSE NoBound)]
             /\ pc' = [pc EXCEPT ![r] = "idle"]
             /\ UNCHANGED ui

\* lines 219-264
giverolechannel(r) ==
    /\ pc[r] = "command"
    /\ command = "channel"
    /\ ParseAndCall(r)
    /\ UNCHANGED <<messages, attachment_filter, roleRank, guildMembers, command,
                   start_message, end_message, is_thread, archived, was_archived,
                   snapshots, roleHolders, pos, aggregates, resolved, outcomes,
                   pending, user, grantCalls, progress_msg, report>>

\* lines 279-335: outside a thread the command is refused; an archived
\* thread is unarchived first, which may fail
giverolethread(r) ==
    /\ pc[r] = "command"
    /\ command = "thread"
    /\ IF ~is_thread
       THEN Reject(r, NotThreadError) /\ UNCHANGED archived
       ELSE IF ~archived
            THEN ParseAndCall(r) /\ UNCHANGED archived
            ELSE \E unarchived \in BOOLEAN :
                    IF unarchived
                    THEN archived' = FALSE /\ ParseAndCall(r)
                    ELSE Reject(r, UnarchiveError) /\ UNCHANGED archived
    /\ UNCHANGED <<messages, attachment_filter, roleRank, guildMembers, command,
                   start_message, end_message, is_thread, was_archived,
                   snapshots, roleHolders, pos, aggregates, resolved, outcomes,
                   pending, user, grantCalls, progress_msg, report>>

\* ------------------------------------------------------ specifications
Step(r) ==
    \/ HierarchyCheck(r)
    \/ ReadMessage(r)
    \/ Resolve(r)
    \/ NextUser(r)
    \/ AddRolesReturn(r)
    \/ ComposeReport(r)

\* one invocation of the command
Next == Step(1)

Spec == Init /\ [][Next]_vars

\* the command is invoked a second time once the first run has finished
SecondRun == pc[1] = "done" /\ Step(2)

NextRepeat == Step(1) \/ SecondRun

InitRepeat == InitOver(StreamsOver(MessagesWith(CorePayloads)))

SpecRepeat == InitRepeat /\ [][NextRepeat]_vars

\* one invocation in which every call the run awaits returns, so that the
\* run always takes its next step
SpecLive == InitRepeat /\ [][Next]_vars /\ WF_vars(Next)

\* two invocations at once: the event loop switches between them at every
\* await, that is between any two steps
NextConcurrent == Step(1) \/ Step(2)

\* scans of image messages without reactions, no filter selected
InitConcurrent ==
    /\ InitOver(StreamsOver(MessagesWith({ImagePayload})))
    /\ attachment_filter = "none"

SpecConcurrent == InitConcurrent /\ [][NextConcurrent]_vars

\* a command is invoked: either command, with or without links, the thread
\* command inside or outside a thread, the thread archived or not
InitCommands ==
    /\ messages \in StreamsOver({Message(u, ImagePayload) : u \in Users})
    /\ attachment_filter = "none"
    /\ roleRank \in RoleRanks
    /\ guildMembers = Users
    /\ roleHolders \in {{}, Users}
    /\ command \in {"channel", "thread"}
    /\ start_message \in Links
    /\ end_message \in Links
    /\ is_thread \in BOOLEAN
    /\ archived \in BOOLEAN
    /\ archived => is_thread
    /\ was_archived = archived
    /\ history_kwargs = [r \in Runs |-> NoHistory]
    /\ pc = [r \in Runs |-> "command"]
    /\ RunInit

NextCommands == giverolechannel(1) \/ giverolethread(1) \/ Step(1)

SpecCommands == InitCommands /\ [][NextCommands]_vars

\* ------------------------------------------- scans of many authors
\* the authors of a large scan, in the order their messages were posted
UserList ==
    <<"u01", "u02", "u03", "u04", "u05", "u06", "u07", "u08", "u09", "u10",
      "u11", "u12", "u13", "u14", "u15", "u16", "u17", "u18", "u19", "u20",
      "u21", "u22", "u23", "u24", "u25", "u26", "u27", "u28">>

\* n authors post one qualifying message each. Every author but the last
\* three stands to the guild as base says (gone from it, or a member holding
\* the role); the last three are, each for itself, gone, holders, or members
\* without the role.
InitManyOver(sizes) ==
    /\ \E n \in sizes, base \in {"absent", "holder"} :
         \E last \in [{i \in 1..n : i > n - 3} -> {"absent", "holder", "plain"}] :
            LET status(i) == IF i \in DOMAIN last THEN last[i] ELSE base IN
            /\ messages = [i \in 1..n |-> Message(UserList[i], ImagePayload)]
            /\ guildMembers = {UserList[i] : i \in {k \in 1..n : status(k) # "absent"}}
            /\ roleHolders = {UserList[i] : i \in {k \in 1..n : status(k) = "holder"}}
    /\ attachment_filter = "none"
    /\ roleRank \in RoleRanks
    /\ CalledOnWholeHistory
    /\ RunInit

InitMany == InitManyOver(0..MaxAuthors)

\* line 130 when the set yields its authors in the order of UserList, one of
\* the orders in which a Python set can yield them
NextUserInOrder(r) ==
    /\ NextUser(r)
    /\ \E i \in 1..Len(UserList) :
          /\ pending[r] \ pending'[r] = {UserList[i]}
          /\ \A k \in 1..(i - 1) : UserList[k] \notin pending[r]

NextMany ==
    \/ HierarchyCheck(1)
    \/ ReadMessage(1)
    \/ Resolve(1)
    \/ NextUserInOrder(1)
    \/ AddRolesReturn(1)
    \/ ComposeReport(1)

SpecMany == InitMany /\ [][NextMany]_vars

\* ------------------------------------------------------------- properties
Range(seq) == {seq[i] : i \in 1..Len(seq)}

Occurrences(seq, x) == Cardinality({i \in 1..Len(seq) : seq[i] = x})

\* the run passed the hierarchy check and has consumed the whole stream
Aggregated(r) ==
    /\ roleRank < TopRank
    /\ pc[r] \in {"assign", "granting", "report", "done"}

Finished(r) == roleRank < TopRank /\ pc[r] = "done"

\* a message that makes its author eligible: not from a bot, no reject
\* marker with a positive count, and it passes the selected filter
Qualifies(message) ==
    /\ ~IsBot(message.author)
    /\ ~has_cross(message)
    /\ passes_attachment_filter(message, attachment_filter)

MessagesOf(a) == {i \in 1..Len(messages) : messages[i].author = a}

\* C1: when the target role's rank is at or above the bot's top role, the run
\* reads no message, issues no add_roles call, and its only output is the
\* hierarchy error.
HierarchyGuard ==
    \A r \in Runs :
        (pc[r] # "idle" /\ roleRank >= TopRank) =>
            /\ pc[r] = "done"
            /\ pos[r] = 0
            /\ grantCalls[r] = <<>>
            /\ ui[r] = <<Send(HierarchyError)>>
            /\ progress_msg[r] = NoMessage
            /\ report[r] = NoMessage

\* a rejected run over a stream with a qualifying message of a member who
\* lacks the role, at equal rank
HierarchyGuardWitness ==
    /\ pc[1] = "done"
    /\ roleRank = TopRank
    /\ \E i \in 1..Len(messages) :
          /\ Qualifies(messages[i])
          /\ messages[i].author \in guildMembers \ roleHolders

\* C2: after aggregation an author is eligible iff at least one of their
\* non-bot messages has no reject marker and passes the filter, whatever
\* else they sent before or after it.
Eligibility ==
    \A r \in Runs :
        Aggregated(r) =>
            \A a \in Authors :
                a \in valid_users[r] <=> \E i \in MessagesOf(a) : Qualifies(messages[i])

\* an eligible author whose qualifying message is followed by a message
\* carrying a reject marker
EligibilityWitness ==
    /\ Aggregated(1)
    /\ \E a \in valid_users[1] : \E i, j \in MessagesOf(a) :
          i < j /\ Qualifies(messages[i]) /\ has_cross(messages[j])

\* C3: add_roles is called only for authors in the eligible set: never for
\* an excluded author, a bot, or an author absent from the scanned range.
GrantsOnlyEligible ==
    \A r \in Runs : \A u \in Range(grantCalls[r]) :
        /\ u \in valid_users[r]
        /\ u \notin excluded_users[r]
        /\ ~IsBot(u)
        /\ \E i \in MessagesOf(u) : Qualifies(messages[i])

\* a grant was issued while an excluded author who is a member without the
\* role was left alone
GrantsOnlyEligibleWitness ==
    /\ pc[1] = "done"
    /\ grantCalls[1] # <<>>
    /\ \E u \in excluded_users[1] : u \in guildMembers \ roleHolders

\* the step in which the loop reaches a member holding the role
AlreadyHadStep ==
    \A r \in Runs : \A u \in Users :
        (pc[r] = "assign" /\ u \in pending[r] /\ u \notin pending'[r]
            /\ u \in guildMembers /\ u \in roleHolders) =>
            /\ already_had_role'[r] = Append(already_had_role[r], u)
            /\ assigned_users'[r] = assigned_users[r]
            /\ failed_users'[r] = failed_users[r]
            /\ grantCalls'[r] = grantCalls[r]
            /\ roleHolders' = roleHolders

AlreadyHadApart ==
    \A r \in Runs : \A u \in Range(already_had_role[r]) :
        /\ u \notin Range(assigned_users[r])
        /\ u \notin {f.user : f \in Range(failed_users[r])}
        /\ u \notin Range(grantCalls[r])

\* C4: an eligible author who holds the role when the loop reaches them is
\* recorded under already-had, not under assigned or failed, and no
\* add_roles call is issued for them.
AlreadyHad == [][AlreadyHadStep]_vars /\ []AlreadyHadApart

AlreadyHadWitness ==
    /\ pc[1] = "done"
    /\ \E u \in Range(already_had_role[1]) : \E i \in MessagesOf(u) : Qualifies(messages[i])

\* C5: the loop handles every eligible author exactly once whatever the
\* outcomes are: at completion assigned + already-had + failed is the number
\* of eligible authors, and every eligible member lacking the role got its
\* add_roles call.
OutcomeCount(r, u) ==
    Occurrences(assigned_users[r], u) + Occurrences(already_had_role[r], u)
    + Cardinality({i \in 1..Len(failed_users[r]) : failed_users[r][i].user = u})

FailuresNeverAbort ==
    \A r \in Runs :
        /\ Aggregated(r) =>
              /\ processed[r] = Len(assigned_users[r]) + Len(already_had_role[r])
                                  + Len(failed_users[r])
              /\ \A u \in Authors : OutcomeCount(r, u) <= 1
        /\ Finished(r) =>
              /\ Len(assigned_users[r]) + Len(already_had_role[r])
                    + Len(failed_users[r]) = Cardinality(valid_users[r])
              /\ processed[r] = total[r]
              /\ \A u \in valid_users[r] : OutcomeCount(r, u) = 1
              /\ \A u \in valid_users[r] :
                    (u \in guildMembers /\ u \notin Range(already_had_role[r]))
                        => u \in Range(grantCalls[r])

\* the first add_roles call failed and the one after it succeeded
FailuresNeverAbortWitness ==
    /\ Finished(1)
    /\ Len(grantCalls[1]) = 2
    /\ failed_users[1] # <<>>
    /\ failed_users[1][1].user = grantCalls[1][1]
    /\ assigned_users[1] = <<grantCalls[1][2]>>

\* C6: a second scan, run after the first has finished over the same
\* messages, role and filter, classifies every author the first run assigned
\* or found holding the role as already-had, assigns none of them anew and
\* issues no add_roles call for them.
RepeatedScan ==
    LET held == Range(assigned_users[1]) \cup Range(already_had_role[1]) IN
    /\ (Finished(1) /\ pc[2] # "idle") => Range(grantCalls[2]) \cap held = {}
    /\ (Finished(1) /\ Finished(2)) =>
          /\ held \subseteq Range(already_had_role[2])
          /\ Range(assigned_users[2]) \cap held = {}
          /\ \A u \in Range(grantCalls[2]) : u \notin Range(assigned_users[1])

\* both runs are over; the first assigned one author and found another one
\* holding the role
RepeatedScanWitness ==
    /\ Finished(1) /\ Finished(2)
    /\ assigned_users[1] # <<>>
    /\ already_had_role[1] # <<>>
    /\ Len(already_had_role[2]) = 2

\* C7: in the final report, scanned = assigned + already-had +
\* excluded-by-reaction + excluded-by-filter + failed.
ReportCountsSum ==
    \A r \in Runs :
        Finished(r) =>
            report[r].scanned =
                report[r].assigned + report[r].already_had + report[r].excl_reaction
                + report[r].excl_filter + report[r].failed

\* C8: the report's excluded-by-filter count is the number of authors that
\* failed the filter and never became eligible.
ExcludedByFilterNeverEligible ==
    \A r \in Runs :
        Finished(r) =>
            report[r].excl_filter =
                Cardinality(filter_failed_users[r] \cap excluded_users[r])

\* C9: the report's excluded-by-reaction count is |excluded| minus
\* |filter-failed /\ excluded|: the seen authors that are neither eligible nor
\* in the filter-failed set.
ExcludedByReactionIsDifference ==
    \A r \in Runs :
        Finished(r) =>
            /\ report[r].excl_reaction =
                 Cardinality(excluded_users[r])
                 - Cardinality(filter_failed_users[r] \cap excluded_users[r])
            /\ report[r].excl_reaction =
                 Cardinality({a \in all_users[r] :
                                a \notin valid_users[r] /\ a \notin filter_failed_users[r]})

\* authors with a message carrying a reject marker
RejectMarked == {a \in Users : \E i \in MessagesOf(a) : has_cross(messages[i])}

\* an excluded author is in the filter-failed set, and the count differs
\* from the number of authors whose messages carried a reject marker
ExcludedByReactionWitness ==
    /\ Finished(1)
    /\ filter_failed_users[1] \cap excluded_users[1] # {}
    /\ report[1].excl_reaction # Cardinality(RejectMarked)

\* C10: after resolution, eligible and excluded are disjoint and their union
\* is the set of seen authors, the non-bot authors of the stream.
Partition ==
    \A r \in Runs :
        Aggregated(r) =>
            /\ valid_users[r] \cap excluded_users[r] = {}
            /\ valid_users[r] \cup excluded_users[r] = all_users[r]
            /\ all_users[r] = {a \in Users : MessagesOf(a) # {}}

PartitionWitness ==
    /\ Aggregated(1)
    /\ valid_users[1] # {}
    /\ excluded_users[1] # {}


\* C11: a bot author is in no aggregate set (seen, message counts, clean
\* flags, filter-failed, eligible, excluded, duplicates) and adds to no count
\* of the report, whatever its messages are.
BotExclusion ==
    \A r \in Runs :
        /\ \A b \in Bots :
              /\ b \notin all_users[r]
              /\ b \notin DOMAIN user_message_count[r]
              /\ b \notin DOMAIN user_has_clean[r]
              /\ b \notin filter_failed_users[r]
              /\ b \notin valid_users[r]
              /\ b \notin excluded_users[r]
              /\ b \notin duplicate_users[r]
              /\ b \notin pending[r]
        /\ Finished(r) =>
              /\ report[r].scanned = Cardinality({a \in Users : MessagesOf(a) # {}})
              /\ report[r].duplicates =
                    Cardinality({a \in Users : Cardinality(MessagesOf(a)) > 1})
              /\ report[r].assigned + report[r].already_had + report[r].failed =
                    Cardinality({a \in Users : \E i \in MessagesOf(a) : Qualifies(messages[i])})
              /\ report[r].excl_filter =
                    Cardinality({a \in Users : \E i \in MessagesOf(a) :
                        ~has_cross(messages[i])
                        /\ ~passes_attachment_filter(messages[i], attachment_filter)})
              /\ report[r].excl_reaction <= Cardinality({a \in Users : MessagesOf(a) # {}})

\* a finished run over a stream holding a bot's message, which has an image,
\* a link and no reaction, next to a user's message
BotExclusionWitness ==
    /\ Finished(1)
    /\ \E b \in Bots : MessagesOf(b) # {}
    /\ \E a \in Users : MessagesOf(a) # {}

\* C15: after aggregation the duplicates are exactly the non-bot authors with
\* more than one message in the range, every message counting, eligible or
\* not.
Duplicates ==
    \A r \in Runs :
        Aggregated(r) =>
            duplicate_users[r] = {a \in Users : Cardinality(MessagesOf(a)) > 1}

\* a duplicate author both of whose messages carry a reject marker
DuplicatesWitness ==
    /\ Aggregated(1)
    /\ \E a \in duplicate_users[1] \cap excluded_users[1] :
          \A i \in MessagesOf(a) : has_cross(messages[i])

StreamOrders(n) == {p \in [1..n -> 1..n] : \A i, j \in 1..n : p[i] = p[j] => i = j}

Permuted(stream, p) == [i \in 1..Len(stream) |-> stream[p[i]]]

\* C20: every permutation of the stream yields the seen, filter-failed,
\* eligible, excluded and duplicates sets that the run computed.
OrderIndependence ==
    \A r \in Runs :
        Aggregated(r) =>
            \A p \in StreamOrders(Len(messages)) :
                ResolvedSets(Aggregate(Permuted(messages, p), attachment_filter)) =
                    [seen          |-> all_users[r],
                     filter_failed |-> filter_failed_users[r],
                     eligible      |-> valid_users[r],
                     excluded      |-> excluded_users[r],
                     duplicates    |-> duplicate_users[r]]

\* an eligible author whose qualifying message comes after a message with a
\* reject marker
OrderIndependenceWitness ==
    /\ Aggregated(1)
    /\ \E a \in valid_users[1] : \E i, j \in MessagesOf(a) :
          i < j /\ has_cross(messages[i]) /\ Qualifies(messages[j])


\* C14: with n failed authors the report has min(n, 20) detail lines, the
\* first ones recorded and in that order; the "more" line is there iff
\* n > 20 and then says n - 20; the printed failed count is n.
Truncation ==
    \A r \in Runs :
        Finished(r) =>
            LET n  == Len(failed_users[r])
                fs == report[r].failed_section
            IN  /\ Len(fs.lines) = IF n < 20 THEN n ELSE 20
                /\ \A i \in 1..Len(fs.lines) : fs.lines[i] = failed_users[r][i]
                /\ fs.marker <=> n > 20
                /\ fs.marker => fs.more = n - 20
                /\ fs.count = n
                /\ report[r].failed = n

\* 25 failures, some of authors gone and some of refused grants: 20 lines
\* and a marker of 5
TruncationWitness ==
    /\ Finished(1)
    /\ Len(failed_users[1]) = 25
    /\ Len(report[1].failed_section.lines) = 20
    /\ report[1].failed_section.marker
    /\ report[1].failed_section.more = 5
    /\ \E i, j \in 1..25 : failed_users[1][i].reason # failed_users[1][j].reason

ProgressEdits(r) ==
    {ui[r][i].content : i \in {k \in 1..Len(ui[r]) : ui[r][k].op = "edit"}}

\* C16: whenever the processed counter has reached a multiple of 10, a
\* progress edit showing that count and the total was attempted, also when
\* the author that brought the counter there was skipped.
ProgressCadence ==
    \A r \in Runs :
        Aggregated(r) =>
            \A k \in 1..(processed[r] \div 10) :
                Progress(10 * k, total[r]) \in ProgressEdits(r)


\* the calls of run r that showed its final report
ReportCalls(r) == {i \in 1..Len(ui[r]) : ui[r][i].content = report[r]}

DeliveredOnce(r) ==
    /\ Cardinality({i \in ReportCalls(r) : ui[r][i].ok}) = 1
    /\ Cardinality({i \in ReportCalls(r) : ui[r][i].op = "edit"}) = 1
    /\ \A i \in ReportCalls(r) :
          /\ ui[r][i].op = "edit" /\ ui[r][i].ok => progress_msg[r] = report[r]
          /\ ui[r][i].op = "edit" =>
                (~ui[r][i].ok <=>
                    \E j \in ReportCalls(r) : j > i /\ ui[r][j].op = "send")

Replay ==
    /\ pc[1] = "done"
    /\ pc[2] = "idle"
    /\ roleHolders # rolesBefore[1]
    /\ roleHolders' = rolesBefore[1]
    /\ UNCHANGED <<globals, snapshots, pc, pos, aggregates, resolved, outcomes,
                   pending, user, grantCalls, ui, progress_msg, report>>

\* add_roles answers run r for its author as it answered run q, if run q
\* called it for that author
SameOutcomeAs(r, q) ==
    LET u == user[r] IN
    /\ u \in Range(assigned_users[q]) => assigned_users'[r] # assigned_users[r]
    /\ (\E f \in Range(failed_users[q]) : f.user = u) =>
          /\ failed_users'[r] # failed_users[r]
          /\ failed_users'[r][Len(failed_users'[r])] \in Range(failed_users[q])

ReplayedRun ==
    /\ pc[1] = "done"
    /\ pc[2] # "idle" \/ roleHolders = rolesBefore[1]
    /\ \/ HierarchyCheck(2)
       \/ ReadMessage(2)
       \/ Resolve(2)
       \/ NextUserInOrder(2)
       \/ AddRolesReturn(2) /\ SameOutcomeAs(2, 1)
       \/ ComposeReport(2)

NextPair == NextMany \/ Replay \/ ReplayedRun

InitPair == InitManyOver((ProgressEvery - 1)..MaxPairAuthors)

SpecPair == InitPair /\ [][NextPair]_vars

FailedEdits(r) == {i \in 1..Len(ui[r]) : ui[r][i].op = "edit" /\ ~ui[r][i].ok}

\* C18: two runs of one scan with the same answers of add_roles, whatever
\* edits of the progress message fail in either, issue the same grant calls
\* in the same order, leave the same role state and report the same counts.
UiIndependence ==
    (pc[1] = "done" /\ pc[2] = "done") =>
        /\ grantCalls[1] = grantCalls[2]
        /\ rolesAfter[1] = rolesAfter[2]
        /\ report[1] = report[2]
        /\ assigned_users[1] = assigned_users[2]
        /\ already_had_role[1] = already_had_role[2]
        /\ failed_users[1] = failed_users[2]

\* the first run lost its progress edit and the second its report edit, or
\* the other way round, around grants of which one succeeded and one failed
UiIndependenceWitness ==
    /\ Finished(1) /\ pc[2] = "done"
    /\ assigned_users[2] # <<>>
    /\ \E f \in Range(failed_users[2]) : f.reason # "left server?"
    /\ \E a, b \in Runs :
          /\ a # b
          /\ \E i \in FailedEdits(a) : ui[a][i].content.kind = "progress"
          /\ \A i \in FailedEdits(b) : ui[b][i].content.kind = "report"
          /\ FailedEdits(b) # {}
          /\ \A i \in FailedEdits(a) : ui[a][i].content.kind = "progress"


\* C19: when two concurrent runs have both finished, every author that
\* either of them reports as newly assigned holds the role.
ConcurrentGrants ==
    (Finished(1) /\ Finished(2)) =>
        \A u \in Range(assigned_users[1]) \cup Range(assigned_users[2]) :
            u \in roleHolders

\* the race: both runs found the author without the role, both called
\* add_roles for it, and both report it as newly assigned
ConcurrentGrantsWitness ==
    /\ Finished(1) /\ Finished(2)
    /\ \E u \in Users :
          /\ u \in Range(grantCalls[1]) /\ u \in Range(grantCalls[2])
          /\ u \in Range(assigned_users[1]) /\ u \in Range(assigned_users[2])
          /\ u \notin rolesBefore[1] /\ u \notin rolesBefore[2]
          /\ u \in roleHolders


\* the run ended on a failed precondition: a refusal by the command, or
\* the hierarchy error of process_messages
PreconditionFailed(r) ==
    \/ pc[r] = "rejected"
    \/ pc[r] = "done" /\ HierarchyViolation(roleRank, TopRank)

\* C12: a run that ended on a failed precondition has read no message and
\* issued no grant, the role state is as before, and the thread is archived
\* or not as it was before the command.
NoSideEffects ==
    \A r \in Runs :
        PreconditionFailed(r) =>
            /\ pos[r] = 0
            /\ grantCalls[r] = <<>>
            /\ rolesBefore[r] \in {{}, roleHolders}
            /\ archived = was_archived

\* the run passed the checks that come before the check of the range
ReachedRangeCheck(r) ==
    /\ pc[r] # "command"
    /\ \A i \in 1..Len(ui[r]) : ui[r][i].content \notin {NotThreadError, UnarchiveError}

\* C13: when both links are given and parse to ids with start >= end, the
\* command refuses with the range error; history() is not called, no
\* message is read and no grant is issued.
RangeRejection ==
    \A r \in Runs :
        ( /\ ReachedRangeCheck(r)
          /\ start_message # NoLink /\ end_message # NoLink
          /\ parse_message_id(start_message).ok
          /\ parse_message_id(end_message).ok
          /\ parse_message_id(start_message).id >= parse_message_id(end_message).id )
        => /\ pc[r] = "rejected"
           /\ ui[r] = <<Send(RangeError)>>
           /\ ~history_kwargs[r].made
           /\ pos[r] = 0
           /\ grantCalls[r] = <<>>

====
